---- MODULE Spec2Model ----
(***************************************************************************)
(* disk-cleaner: directory size analysis (src/src/analyzer.rs) and         *)
(* cross-platform deletion (src/src/platform.rs), modelled over a small    *)
(* POSIX file system that other processes may change while a call runs.    *)
(***************************************************************************)
EXTENDS Integers, Sequences, FiniteSets, TLC

\* ------------------------------------------------------------------ bounds
\* Largest max_depth an analyzer is built with.
MaxDepth == 2
\* Width of the size counter. The program uses u64; the model keeps the
\* arithmetic and scales the width down so that overflow is reachable.
WordBits == 3
\* Number of changes other processes make to the file system during a run.
MaxEnv == 1
\* Longest entry slice handed to filter_entries.
MaxEntries == 3

U64_MAX == 2^WordBits - 1

\* ------------------------------------------------------------- file system
\* The universe of paths. ParentOf[n] is the directory holding n (0: none).
\*      1 (the analysed root)
\*      +-- 2 --+-- 5 -- 7 -- 8
\*      |       +-- 6
\*      +-- 3
\*      +-- 4
ParentOf == <<0, 1, 1, 1, 2, 2, 5, 7>>
Nodes == DOMAIN ParentOf
NoNode == 0
Root == 1

VARIABLES
    kind,       \* [Nodes -> {"none","file","dir","link"}]: what is at each path
    target,     \* [Nodes -> Nodes]: where a symbolic link points
    len,        \* [Nodes -> 0..U64_MAX]: length of a regular file
    mode,       \* [Nodes -> SUBSET {"w","rx"}]: owner permission bits
    envBudget,  \* changes other processes may still make
    max_depth,  \* DiskAnalyzer.max_depth of the analyzer in use
    apc,        \* position of analyze_directory
    dirIter,    \* the fs::read_dir iterator of analyze_directory
    tasks,      \* the spawned size tasks, in spawn order
    entries,    \* analyze_directory's local `entries`
    result,     \* what analyze_directory returned
    fin,        \* filter_entries: the input slice
    fmin,       \* filter_entries: min_size
    fout,       \* filter_entries: the returned vector
    fpc,        \* filter_entries: "ready" before the call, "done" after it
    dpc,        \* position of can_delete / safe_delete
    dcall,      \* the deletion call in progress
    dres,       \* what the deletion call returned
    cfg,        \* the target the program was built for: "unix" or "windows"
    mpc,        \* position of main / of the FileManager call in progress
    selected,   \* main: what select_entries returned
    valid_selected, \* main: what validate_entries returned
    unwritable, \* main: what get_unwritable_entries returned
    confirmed,  \* what confirm_deletion returned: "none" before the call
    batch,      \* delete_entries: the input slice
    deleted,    \* delete_entries: the paths deleted so far
    failed,     \* delete_entries: the failures so far, path and reason
    calls,      \* the paths handed to safe_delete so far, in call order
    first,      \* what an earlier analyze_directory call of the same caller returned
    ctor,       \* the arguments of a DirectoryEntry::new call
    built,      \* the entry that call returned
    freed_bytes \* main: the total it reports as freed

fsVars == <<kind, target, len, mode>>
analyzeVars == <<max_depth, apc, dirIter, entries, result>>
filterVars == <<fin, fmin, fout, fpc>>
deleteVars == <<dpc, dcall, dres>>
managerVars == <<mpc, selected, valid_selected, unwritable, confirmed, batch, deleted,
                 failed, calls>>
callerVars == <<first, ctor, built, freed_bytes>>
otherVars == <<cfg, managerVars, callerVars>>
vars == <<kind, target, len, mode, envBudget, max_depth, apc, dirIter, tasks,
          entries, result, fin, fmin, fout, fpc, dpc, dcall, dres, cfg, mpc,
          selected, valid_selected, unwritable, confirmed, batch, deleted, failed,
          calls, first, ctor, built, freed_bytes>>

Kinds == {"none", "file", "dir", "link"}
AllPerms == {"w", "rx"}

RECURSIVE AncestorsFrom(_)
AncestorsFrom(n) ==
    IF ParentOf[n] = NoNode THEN {} ELSE {ParentOf[n]} \cup AncestorsFrom(ParentOf[n])

\* The shape of the universe, tabulated once.
AncestorTable == [n \in Nodes |-> AncestorsFrom(n)]
ChildTable == [d \in Nodes |-> {n \in Nodes : ParentOf[n] = d}]
SubtreeTable == [n \in Nodes |-> {n} \cup {m \in Nodes : n \in AncestorTable[m]}]
LevelTable == [n \in Nodes |-> Cardinality(AncestorTable[n])]
MaxHops == Cardinality(Nodes)

AncestorsOf(n) == AncestorTable[n]
ChildrenOf(d) == ChildTable[d]
SubtreeOf(n) == SubtreeTable[n]

\* lstat(n) succeeds: the entry is there and every directory on the way to it
\* can be searched.
LExists(n) ==
    /\ n \in Nodes
    /\ kind[n] # "none"
    /\ \A a \in AncestorsOf(n) : kind[a] = "dir" /\ "rx" \in mode[a]

\* stat(n): follow symbolic links (ELOOP after more hops than there are paths).
RECURSIVE Follow(_, _)
Follow(n, hops) ==
    IF ~LExists(n) THEN NoNode
    ELSE IF kind[n] # "link" THEN n
    ELSE IF hops = 0 THEN NoNode
    ELSE Follow(target[n], hops - 1)

Resolve(n) == Follow(n, MaxHops)

\* std::path::Path::exists / is_file / is_dir: all of them follow links and
\* answer false on any error.
Exists(n) == Resolve(n) # NoNode
IsFile(n) == Resolve(n) # NoNode /\ kind[Resolve(n)] = "file"
IsDir(n) == Resolve(n) # NoNode /\ kind[Resolve(n)] = "dir"

\* Why stat(n) fails, as an io::ErrorKind ("" when it succeeds).
RECURSIVE StatError(_, _)
StatError(n, hops) ==
    IF \E a \in AncestorsOf(n) : kind[a] = "dir" /\ "rx" \notin mode[a] THEN "PermissionDenied"
    ELSE IF ~LExists(n) THEN "NotFound"
    ELSE IF kind[n] # "link" THEN ""
    ELSE IF hops = 0 THEN "FilesystemLoop"
    ELSE StatError(target[n], hops - 1)

MetadataError(n) == StatError(n, MaxHops)

\* The children of directory d in the order the OS lists them.
RECURSIVE SeqOfSet(_)
SeqOfSet(S) ==
    IF S = {} THEN <<>>
    ELSE LET m == CHOOSE x \in S : \A y \in S : x <= y
         IN <<m>> \o SeqOfSet(S \ {m})

Listing(d) ==
    LET present == SeqOfSet({c \in ChildrenOf(d) : kind[c] # "none"})
    IN [i \in DOMAIN present |-> [node |-> present[i], kind |-> kind[present[i]]]]

\* fs::read_dir(p): follows links; fails unless p is a readable directory.
ReadDir(p) ==
    LET r == Resolve(p)
    IN IF r # NoNode /\ kind[r] = "dir" /\ "rx" \in mode[r]
       THEN [err |-> FALSE, items |-> Listing(r)]
       ELSE [err |-> TRUE, items |-> <<>>]

\* ------------------------------------------------------------ entry model
\* humansize::format_size(n, DECIMAL): the value is divided by 1000 while it is
\* at least 1000, then written with no decimals if it is whole and with two
\* otherwise, a space and the unit. "1.02 kB" is
\* [whole |-> 1, frac |-> 2, places |-> 2, unit |-> "kB"].
Units == <<"B", "kB", "MB", "GB">>

RECURSIVE UnitIndex(_, _)
UnitIndex(n, k) == IF n < 1000 \/ k = Len(Units) THEN k ELSE UnitIndex(n \div 1000, k + 1)

RECURSIVE Pow1000(_)
Pow1000(k) == IF k = 0 THEN 1 ELSE 1000 * Pow1000(k - 1)

\* floor(log2(n)) for n >= 1.
RECURSIVE Log2Floor(_)
Log2Floor(n) == IF n < 2 THEN 0 ELSE 1 + Log2Floor(n \div 2)

\* (x * 2^e) % m, without leaving the range of the integers: eight bits at a
\* time while 256 * m fits, one bit at a time otherwise.
RECURSIVE ShiftMod(_, _, _)
ShiftMod(x, e, m) ==
    IF e = 0 THEN x % m
    ELSE IF e >= 8 /\ m <= 4194304 THEN ShiftMod((256 * (x % m)) % m, e - 8, m)
    ELSE ShiftMod((2 * (x % m)) % m, e - 1, m)

\* The f64 quotient n / scale against the exact one: -1 below, 0 equal, 1
\* above. The quotient has 53 significant bits and is rounded to nearest.
QuotientError(n, scale) ==
    LET r == ShiftMod(n, 52 - Log2Floor(n \div scale), scale)
    IN IF r = 0 THEN 0 ELSE IF 2 * r < scale THEN -1 ELSE 1

\* {:.2} of the f64 quotient, in hundredths: the digits of the stored value
\* rounded to nearest, a stored value exactly half way going to the even digit.
Hundredths(n, scale) ==
    LET h == (n * 100) \div scale
        rem == (n * 100) % scale
    IN IF 2 * rem < scale THEN h
       ELSE IF 2 * rem > scale THEN h + 1
       ELSE LET e == QuotientError(n, scale)
            IN IF e < 0 THEN h
               ELSE IF e > 0 THEN h + 1
               ELSE IF h % 2 = 0 THEN h ELSE h + 1

\* Mutant of format_size: the BINARY options, 1024-based.
format_size_binary(n) ==
    LET k == IF n < 1024 THEN 1 ELSE 2
        scale == IF k = 1 THEN 1 ELSE 1024
    IN IF n % scale = 0
       THEN [whole |-> n \div scale, frac |-> 0, places |-> 0, unit |-> Units[k]]
       ELSE LET h == (n * 100 + scale \div 2) \div scale
            IN [whole |-> h \div 100, frac |-> h % 100, places |-> 2, unit |-> Units[k]]

format_size(n) ==
    LET k == UnitIndex(n, 1)
        scale == Pow1000(k - 1)
    IN IF n % scale = 0
       THEN [whole |-> n \div scale, frac |-> 0, places |-> 0, unit |-> Units[k]]
       ELSE LET h == Hundredths(n, scale)
            IN [whole |-> h \div 100, frac |-> h % 100, places |-> 2, unit |-> Units[k]]

DirectoryEntry_new(path, size_bytes, is_directory) ==
    [path |-> path,
     size_bytes |-> size_bytes,
     size_human |-> format_size(size_bytes),
     is_directory |-> is_directory]

NoEntry == DirectoryEntry_new(NoNode, 0, FALSE)

\* One call DirectoryEntry::new(ctor.path, ctor.size_bytes, ctor.is_directory).
DirectoryEntry_new_call ==
    /\ ctor.path # NoNode
    /\ built = NoEntry
    /\ built' = DirectoryEntry_new(ctor.path, ctor.size_bytes, ctor.is_directory)
    /\ UNCHANGED <<fsVars, envBudget, analyzeVars, tasks, filterVars, deleteVars, cfg,
                   managerVars, first, ctor, freed_bytes>>

\* -------------------------------------------------------------- SizeProbe
Ok(v) == [ok |-> TRUE, val |-> v, err |-> ""]
Err(e) == [ok |-> FALSE, val |-> 0, err |-> e]
Pending == Err("pending")

unwrap_or(r, default) == IF r.ok THEN r.val ELSE default

\* Mutant of saturating_add: wrapping addition.
wrapping_add(a, b) == (a + b) % (U64_MAX + 1)

saturating_add(a, b) == IF a + b > U64_MAX THEN U64_MAX ELSE a + b

saturating_sub(a, b) == IF a < b THEN 0 ELSE a - b

\* One call of calculate_size. `spawned` tells a call made by the closure
\* that analyze_directory spawns from a direct call.
NewCall(path, depth, is_directory, spawned) ==
    [path |-> path, max_depth |-> depth, is_directory |-> is_directory,
     spawned |-> spawned, pc |-> "exists", started |-> FALSE, stack |-> <<>>,
     total_size |-> 0, ret |-> Pending, entry |-> NoEntry]

\* Mutant of Return: the result is stored but the call is never marked as
\* finished, as a handle that never resolves.
Return_lost(t, r) ==
    [t EXCEPT !.ret = r,
              !.entry = IF t.spawned
                        THEN DirectoryEntry_new(t.path, unwrap_or(r, 0), t.is_directory)
                        ELSE NoEntry]

\* calculate_size returns r; a spawned closure goes on to build its entry:
\* analyzer.calculate_size(&path_clone).unwrap_or(0), DirectoryEntry::new.
Return(t, r) ==
    [t EXCEPT !.pc = "done", !.stack = <<>>, !.ret = r,
              !.entry = IF t.spawned
                        THEN DirectoryEntry_new(t.path, unwrap_or(r, 0), t.is_directory)
                        ELSE NoEntry]

\* walkdir, follow_links(false): the first next() yields the root of the walk.
\* The root is looked at with lstat; a root that is a directory, or a link to
\* one, is opened for reading.
WalkStart(p) ==
    IF ~LExists(p) THEN [stack |-> <<>>, item |-> [tag |-> "err", node |-> p, kind |-> "none"]]
    ELSE IF kind[p] = "dir"
         THEN [stack |-> <<ReadDir(p)>>, item |-> [tag |-> "ent", node |-> p, kind |-> "dir"]]
    ELSE IF kind[p] = "link"
         THEN IF ~Exists(p)
              THEN [stack |-> <<>>, item |-> [tag |-> "err", node |-> p, kind |-> "none"]]
              ELSE [stack |-> IF IsDir(p) THEN <<ReadDir(p)>> ELSE <<>>,
                    item |-> [tag |-> "ent", node |-> p, kind |-> "link"]]
    ELSE [stack |-> <<>>, item |-> [tag |-> "ent", node |-> p, kind |-> "file"]]

Pop(stack) == SubSeq(stack, 1, Len(stack) - 1)

\* walkdir, every later next(): lists deeper than max_depth are closed unread,
\* an open error is yielded once, an exhausted list is closed, and a yielded
\* directory is opened before it is handed out.
RECURSIVE WalkNext(_, _)
WalkNext(stack, maxd) ==
    IF stack = <<>> THEN [stack |-> <<>>, item |-> [tag |-> "end", node |-> NoNode, kind |-> "none"]]
    ELSE LET depth == Len(stack)
             top == stack[depth]
         IN IF depth > maxd THEN WalkNext(Pop(stack), maxd)
            ELSE IF top.err
                 THEN [stack |-> [stack EXCEPT ![depth] = [err |-> FALSE, items |-> <<>>]],
                       item |-> [tag |-> "err", node |-> NoNode, kind |-> "none"]]
            ELSE IF top.items = <<>> THEN WalkNext(Pop(stack), maxd)
            ELSE LET e == Head(top.items)
                     rest == [stack EXCEPT ![depth].items = Tail(top.items)]
                 IN [stack |-> IF e.kind = "dir" THEN Append(rest, ReadDir(e.node)) ELSE rest,
                     item |-> [tag |-> "ent", node |-> e.node, kind |-> e.kind]]

\* Mutant of WalkBody: a symbolic link to a regular file is counted with the
\* length of its target, as a test of the metadata with links followed does.
WalkBody_followed(total_size, item) ==
    IF item.tag = "ent" /\ item.kind = "file" /\ LExists(item.node)
    THEN saturating_add(total_size, len[item.node])
    ELSE IF item.tag = "ent" /\ item.kind = "link" /\ IsFile(item.node)
    THEN saturating_add(total_size, len[Resolve(item.node)])
    ELSE total_size

\* The body of the for loop of calculate_size for one yielded item.
WalkBody(total_size, item) ==
    IF item.tag = "ent" /\ item.kind = "file" /\ LExists(item.node)
    THEN saturating_add(total_size, len[item.node])
    ELSE total_size

\* if !path.exists() { return Ok(0); }
calculate_size_exists(i) ==
    /\ i \in DOMAIN tasks
    /\ tasks[i].pc = "exists"
    /\ tasks' = [tasks EXCEPT ![i] =
                    IF ~Exists(@.path) THEN Return(@, Ok(0)) ELSE [@ EXCEPT !.pc = "is_file"]]
    /\ UNCHANGED <<fsVars, envBudget, analyzeVars, filterVars, otherVars, deleteVars>>

\* if path.is_file() { ... }
calculate_size_is_file(i) ==
    /\ i \in DOMAIN tasks
    /\ tasks[i].pc = "is_file"
    /\ tasks' = [tasks EXCEPT ![i].pc = IF IsFile(tasks[i].path) THEN "metadata" ELSE "walk"]
    /\ UNCHANGED <<fsVars, envBudget, analyzeVars, filterVars, otherVars, deleteVars>>

\* return Ok(path.metadata()?.len());
calculate_size_metadata(i) ==
    /\ i \in DOMAIN tasks
    /\ tasks[i].pc = "metadata"
    /\ tasks' = [tasks EXCEPT ![i] =
                    IF Exists(@.path) THEN Return(@, Ok(len[Resolve(@.path)]))
                    ELSE Return(@, Err(MetadataError(@.path)))]
    /\ UNCHANGED <<fsVars, envBudget, analyzeVars, filterVars, otherVars, deleteVars>>

\* Mutant of calculate_size_walk: an item that is an error ends the call with
\* that error, as `entry?` in the loop would.
calculate_size_walk_abort(i) ==
    /\ i \in DOMAIN tasks
    /\ tasks[i].pc = "walk"
    /\ LET t == tasks[i]
           w == IF t.started THEN WalkNext(t.stack, t.max_depth) ELSE WalkStart(t.path)
       IN tasks' = [tasks EXCEPT ![i] =
                       IF w.item.tag = "end" THEN Return(t, Ok(t.total_size))
                       ELSE IF w.item.tag = "err" THEN Return(t, Err("walk error"))
                       ELSE [t EXCEPT !.started = TRUE, !.stack = w.stack,
                                      !.total_size = WalkBody(t.total_size, w.item)]]
    /\ UNCHANGED <<fsVars, envBudget, analyzeVars, filterVars, otherVars, deleteVars>>

\* One turn of `for entry in WalkDir::new(path).follow_links(false)
\* .max_depth(self.max_depth)`; when the iterator ends, return Ok(total_size).
calculate_size_walk(i) ==
    /\ i \in DOMAIN tasks
    /\ tasks[i].pc = "walk"
    /\ LET t == tasks[i]
           w == IF t.started THEN WalkNext(t.stack, t.max_depth) ELSE WalkStart(t.path)
       IN tasks' = [tasks EXCEPT ![i] =
                       IF w.item.tag = "end" THEN Return(t, Ok(t.total_size))
                       ELSE [t EXCEPT !.started = TRUE, !.stack = w.stack,
                                      !.total_size = WalkBody(t.total_size, w.item)]]
    /\ UNCHANGED <<fsVars, envBudget, analyzeVars, filterVars, otherVars, deleteVars>>

calculate_size_step(i) ==
    \/ calculate_size_exists(i)
    \/ calculate_size_is_file(i)
    \/ calculate_size_metadata(i)
    \/ calculate_size_walk(i)

\* ------------------------------------------------------- other processes
\* Another process removes path n and everything below it.
EnvRemove(n) ==
    /\ envBudget > 0
    /\ kind[n] # "none"
    /\ envBudget' = envBudget - 1
    /\ kind' = [m \in Nodes |-> IF m \in SubtreeOf(n) THEN "none" ELSE kind[m]]
    /\ len' = [m \in Nodes |-> IF m \in SubtreeOf(n) THEN 0 ELSE len[m]]
    /\ mode' = [m \in Nodes |-> IF m \in SubtreeOf(n) THEN AllPerms ELSE mode[m]]
    /\ target' = [m \in Nodes |-> IF m \in SubtreeOf(n) THEN m ELSE target[m]]
    /\ UNCHANGED <<tasks, analyzeVars, filterVars, otherVars, deleteVars>>

\* Another process takes all permissions from directory n (chmod 000).
EnvChmod(n) ==
    /\ envBudget > 0
    /\ kind[n] = "dir"
    /\ mode[n] # {}
    /\ envBudget' = envBudget - 1
    /\ mode' = [mode EXCEPT ![n] = {}]
    /\ UNCHANGED <<kind, target, len, tasks, analyzeVars, filterVars, otherVars, deleteVars>>

\* Another process marks path n read-only (chmod u-w, attrib +R).
EnvReadonly(n) ==
    /\ envBudget > 0
    /\ kind[n] \in {"file", "dir"}
    /\ "w" \in mode[n]
    /\ envBudget' = envBudget - 1
    /\ mode' = [mode EXCEPT ![n] = @ \ {"w"}]
    /\ UNCHANGED <<kind, target, len, tasks, analyzeVars, filterVars, otherVars, deleteVars>>

\* ------------------------------------------------------ DirectoryAnalyzer
\* Mutant of InsertBySize: an equal entry is put in front, as an unstable sort
\* may do.
RECURSIVE InsertBySize_unstable(_, _)
InsertBySize_unstable(e, s) ==
    IF s = <<>> THEN <<e>>
    ELSE IF Head(s).size_bytes > e.size_bytes
         THEN <<Head(s)>> \o InsertBySize_unstable(e, Tail(s))
    ELSE <<e>> \o s

\* Put e into s, which is sorted by size_bytes descending, behind every entry
\* that is not smaller: the place a stable sort gives a later element.
RECURSIVE InsertBySize(_, _)
InsertBySize(e, s) ==
    IF s = <<>> THEN <<e>>
    ELSE IF Head(s).size_bytes >= e.size_bytes THEN <<Head(s)>> \o InsertBySize(e, Tail(s))
    ELSE <<e>> \o s

\* entries.sort_by(|a, b| b.size_bytes.cmp(&a.size_bytes)): slice::sort_by is
\* a stable sort.
RECURSIVE sort_by_size_desc(_)
sort_by_size_desc(s) ==
    IF s = <<>> THEN <<>>
    ELSE InsertBySize(s[Len(s)], sort_by_size_desc(SubSeq(s, 1, Len(s) - 1)))

\* Mutant of task_depth: the depth is handed on without the decrement.
task_depth_undecremented(is_directory) == IF is_directory THEN max_depth ELSE 1

\* let max_depth = if is_directory { self.max_depth.saturating_sub(1) } else { 1 };
task_depth(is_directory) == IF is_directory THEN saturating_sub(max_depth, 1) ELSE 1

\* if !path.exists() { return Err("Directory '{}' does not exist") }
analyze_directory_exists ==
    /\ apc = "exists"
    /\ IF ~Exists(Root)
       THEN apc' = "done" /\ result' = "does not exist"
       ELSE apc' = "is_dir" /\ UNCHANGED result
    /\ UNCHANGED <<fsVars, envBudget, max_depth, dirIter, tasks, entries, filterVars, otherVars, deleteVars>>

\* Mutant of analyze_directory_is_dir: the check is left out.
analyze_directory_is_dir_unchecked ==
    /\ apc = "is_dir"
    /\ apc' = "read_dir"
    /\ UNCHANGED <<fsVars, envBudget, max_depth, dirIter, tasks, entries, result,
                   filterVars, otherVars, deleteVars>>

\* if !path.is_dir() { return Err("'{}' is not a directory") }
analyze_directory_is_dir ==
    /\ apc = "is_dir"
    /\ IF ~IsDir(Root)
       THEN apc' = "done" /\ result' = "is not a directory"
       ELSE apc' = "read_dir" /\ UNCHANGED result
    /\ UNCHANGED <<fsVars, envBudget, max_depth, dirIter, tasks, entries, filterVars, otherVars, deleteVars>>

\* for entry in fs::read_dir(path)? : opening the listing.
analyze_directory_read_dir ==
    /\ apc = "read_dir"
    /\ LET rd == ReadDir(Root)
       IN IF rd.err
          THEN apc' = "done" /\ result' = "io error" /\ UNCHANGED dirIter
          ELSE apc' = "list" /\ dirIter' = rd.items /\ UNCHANGED result
    /\ UNCHANGED <<fsVars, envBudget, max_depth, tasks, entries, filterVars, otherVars, deleteVars>>

\* One turn of the listing loop: the child's type is read and its size task
\* is spawned.
analyze_directory_spawn ==
    /\ apc = "list"
    /\ dirIter # <<>>
    /\ LET entry_path == Head(dirIter).node
           is_directory == IsDir(entry_path)
       IN tasks' = Append(tasks, NewCall(entry_path, task_depth(is_directory),
                                         is_directory, TRUE))
    /\ dirIter' = Tail(dirIter)
    /\ UNCHANGED <<fsVars, envBudget, max_depth, apc, entries, result, filterVars, otherVars, deleteVars>>

\* let entry = entry?; the OS fails to read the next directory entry.
analyze_directory_entry_error ==
    /\ apc = "list"
    /\ dirIter # <<>>
    /\ envBudget > 0
    /\ envBudget' = envBudget - 1
    /\ apc' = "done"
    /\ result' = "io error"
    /\ UNCHANGED <<fsVars, max_depth, dirIter, tasks, entries, filterVars, otherVars, deleteVars>>

\* The listing is exhausted: on to collecting; with nothing spawned the
\* (empty) vector is sorted and returned at once.
analyze_directory_listed ==
    /\ apc = "list"
    /\ dirIter = <<>>
    /\ IF tasks = <<>>
       THEN apc' = "done" /\ result' = "ok"
       ELSE apc' = "collect" /\ UNCHANGED result
    /\ UNCHANGED <<fsVars, envBudget, max_depth, dirIter, tasks, entries, filterVars, otherVars, deleteVars>>

\* Mutant of analyze_directory_collect: the handle is not awaited; a task
\* that has not finished gives no entry.
analyze_directory_collect_nowait ==
    /\ apc = "collect"
    /\ LET next == Len(entries) + 1
           pushed == Append(entries, tasks[next].entry)
       IN IF next = Len(tasks)
          THEN apc' = "done" /\ result' = "ok" /\ entries' = sort_by_size_desc(pushed)
          ELSE entries' = pushed /\ UNCHANGED <<apc, result>>
    /\ UNCHANGED <<fsVars, envBudget, max_depth, dirIter, tasks, filterVars, otherVars, deleteVars>>

\* match task.await { Ok(entry) => entries.push(entry), .. } for the next
\* handle; after the last one, entries.sort_by(..) and return Ok(entries).
analyze_directory_collect ==
    /\ apc = "collect"
    /\ LET next == Len(entries) + 1
           pushed == Append(entries, tasks[next].entry)
       IN /\ tasks[next].pc = "done"
          /\ IF next = Len(tasks)
             THEN apc' = "done" /\ result' = "ok" /\ entries' = sort_by_size_desc(pushed)
             ELSE entries' = pushed /\ UNCHANGED <<apc, result>>
    /\ UNCHANGED <<fsVars, envBudget, max_depth, dirIter, tasks, filterVars, otherVars, deleteVars>>

\* The caller keeps what analyze_directory returned and calls it once more
\* on the same path with the same analyzer.
analyze_directory_again ==
    /\ apc = "done"
    /\ ~first.returned
    /\ first' = [returned |-> TRUE, result |-> result, entries |-> entries]
    /\ apc' = "exists" /\ dirIter' = <<>> /\ entries' = <<>> /\ result' = "pending"
    /\ tasks' = <<>>
    /\ UNCHANGED <<fsVars, envBudget, max_depth, filterVars, deleteVars, cfg, managerVars,
                   ctor, built, freed_bytes>>

\* ------------------------------------------------------------------ filter
\* entries.iter().filter(|e| if let Some(min) = min_size { e.size_bytes >= min }
\* else { true }).cloned().collect(); None is written NoMin.
NoMin == -1

\* Mutant of filter_entries: the comparison is strict.
RECURSIVE filter_entries_strict(_, _)
filter_entries_strict(es, min_size) ==
    IF es = <<>> THEN <<>>
    ELSE LET keep == IF min_size # NoMin THEN Head(es).size_bytes > min_size ELSE TRUE
         IN (IF keep THEN <<Head(es)>> ELSE <<>>) \o filter_entries_strict(Tail(es), min_size)

RECURSIVE filter_entries(_, _)
filter_entries(es, min_size) ==
    IF es = <<>> THEN <<>>
    ELSE LET keep == IF min_size # NoMin THEN Head(es).size_bytes >= min_size ELSE TRUE
         IN (IF keep THEN <<Head(es)>> ELSE <<>>) \o filter_entries(Tail(es), min_size)

\* One call analyzer.filter_entries(&fin, fmin).
filter_entries_call ==
    /\ fpc = "ready"
    /\ fout' = filter_entries(fin, fmin)
    /\ fpc' = "done"
    /\ UNCHANGED <<fsVars, envBudget, analyzeVars, tasks, fin, fmin, deleteVars, otherVars>>

\* ---------------------------------------------------------- PlatformDeleter
NoCall == [op |-> "none", path |-> NoNode, is_directory |-> FALSE]
NoResult == [tag |-> "pending", val |-> FALSE, msg |-> "", path |-> NoNode, io |-> ""]
Bool(b) == [tag |-> "bool", val |-> b, msg |-> "", path |-> NoNode, io |-> ""]
Deleted == [tag |-> "ok", val |-> TRUE, msg |-> "", path |-> NoNode, io |-> ""]
\* anyhow!("<msg> '{path}'[: {io}]")
Failure(msg, path, io) == [tag |-> "err", val |-> FALSE, msg |-> msg, path |-> path, io |-> io]

\* Mutant of can_delete_return: safe_delete does not look at the answer.
can_delete_return_ignored(b) ==
    IF dcall.op = "can_delete" THEN dpc' = "done" /\ dres' = Bool(b)
    ELSE dpc' = (IF cfg = "windows" THEN "sd_readonly" ELSE "remove") /\ UNCHANGED dres

\* can_delete returns b: to its caller, or into safe_delete, which gives up
\* with "Insufficient permissions" on false and on true goes on: to the
\* cfg(windows) block where the build has it, else to the removal.
can_delete_return(b) ==
    IF dcall.op = "can_delete" THEN dpc' = "done" /\ dres' = Bool(b)
    ELSE IF ~b THEN /\ dpc' = "done"
                    /\ dres' = Failure("Insufficient permissions to delete", dcall.path, "")
    ELSE dpc' = (IF cfg = "windows" THEN "sd_readonly" ELSE "remove") /\ UNCHANGED dres

\* can_delete: if !path.exists() { return false; }
can_delete_exists ==
    /\ dpc = "cd_exists"
    /\ IF ~Exists(dcall.path) THEN can_delete_return(FALSE)
       ELSE dpc' = "cd_metadata" /\ UNCHANGED dres
    /\ UNCHANGED <<fsVars, envBudget, analyzeVars, tasks, filterVars, otherVars, dcall>>

\* Mutant of owner_write: the owner-read bit is tested instead.
owner_read(md_mode) == "rx" \in md_mode

\* cfg(unix): the owner-write bit of fs::metadata(path).permissions().mode();
\* cfg(windows): FILE_ATTRIBUTE_READONLY is absent from file_attributes(). A
\* path is read-only exactly when "w" is missing from its mode.
owner_write(md_mode) == "w" \in md_mode

\* can_delete, cfg(unix): if let Ok(metadata) = fs::metadata(path)
\* { return (mode & 0o200) != 0; } false
can_delete_metadata ==
    /\ dpc = "cd_metadata"
    /\ IF Exists(dcall.path) THEN can_delete_return(owner_write(mode[Resolve(dcall.path)]))
       ELSE can_delete_return(FALSE)
    /\ UNCHANGED <<fsVars, envBudget, analyzeVars, tasks, filterVars, otherVars, dcall>>

\* Mutant of safe_delete_exists: the existence check is left out.
safe_delete_exists_unchecked ==
    /\ dpc = "sd_exists"
    /\ dpc' = "cd_exists"
    /\ UNCHANGED <<fsVars, envBudget, analyzeVars, tasks, filterVars, otherVars, dcall, dres>>

\* safe_delete: if !path.exists() { return Err("Path '{}' does not exist") }
safe_delete_exists ==
    /\ dpc = "sd_exists"
    /\ IF ~Exists(dcall.path)
       THEN dpc' = "done" /\ dres' = Failure("Path does not exist", dcall.path, "")
       ELSE dpc' = "cd_exists" /\ UNCHANGED dres
    /\ UNCHANGED <<fsVars, envBudget, analyzeVars, tasks, filterVars, otherVars, dcall>>

\* safe_delete, cfg(windows): if the path is read-only, try to clear the
\* attribute; `let _ = fs::set_permissions(..)` drops a failure.
safe_delete_clear_readonly ==
    /\ dpc = "sd_readonly"
    /\ dpc' = "remove"
    /\ IF Exists(dcall.path) /\ ~owner_write(mode[Resolve(dcall.path)])
       THEN \E cleared \in BOOLEAN :
               mode' = IF cleared THEN [mode EXCEPT ![Resolve(dcall.path)] = @ \cup {"w"}]
                       ELSE mode
       ELSE UNCHANGED mode
    /\ UNCHANGED <<kind, target, len, envBudget, analyzeVars, tasks, filterVars, otherVars,
                   dcall, dres>>

\* A directory on the way to n cannot be searched.
Unsearchable(n) == \E a \in AncestorsOf(n) : kind[a] = "dir" /\ "rx" \notin mode[a]

\* The removal of n is allowed: n is there and, on unix, its directory can be
\* written; on windows, n itself is not read-only.
CanUnlink(k, n) ==
    /\ LExists(n)
    /\ k[n] # "none"
    /\ IF cfg = "windows" THEN "w" \in mode[n]
       ELSE ParentOf[n] # NoNode => "w" \in mode[ParentOf[n]]

\* fs::remove_file(n): [ok, io, kind after the call].
RemoveFile(k, n) ==
    IF Unsearchable(n) THEN [ok |-> FALSE, io |-> "PermissionDenied", kind |-> k]
    ELSE IF ~LExists(n) \/ k[n] = "none" THEN [ok |-> FALSE, io |-> "NotFound", kind |-> k]
    ELSE IF k[n] = "dir" THEN [ok |-> FALSE, io |-> "IsADirectory", kind |-> k]
    ELSE IF ~CanUnlink(k, n) THEN [ok |-> FALSE, io |-> "PermissionDenied", kind |-> k]
    ELSE [ok |-> TRUE, io |-> "", kind |-> [k EXCEPT ![n] = "none"]]

\* The recursion of fs::remove_dir_all below directory n: the children are
\* removed in listing order, then n itself; the first failure ends the call
\* and leaves what was removed so far removed.
RECURSIVE RemoveTree(_, _)
RECURSIVE RemoveChildren(_, _)
RemoveChildren(k, cs) ==
    IF cs = <<>> THEN [ok |-> TRUE, io |-> "", kind |-> k]
    ELSE LET c == Head(cs)
             r == IF k[c] = "dir" THEN RemoveTree(k, c) ELSE RemoveFile(k, c)
         IN IF r.ok THEN RemoveChildren(r.kind, Tail(cs)) ELSE r

RemoveTree(k, n) ==
    IF "rx" \notin mode[n] THEN [ok |-> FALSE, io |-> "PermissionDenied", kind |-> k]
    ELSE LET r == RemoveChildren(k, SeqOfSet({c \in ChildrenOf(n) : k[c] # "none"}))
         IN IF ~r.ok THEN r
            ELSE IF ~CanUnlink(r.kind, n)
                 THEN [ok |-> FALSE, io |-> "PermissionDenied", kind |-> r.kind]
            ELSE [ok |-> TRUE, io |-> "", kind |-> [r.kind EXCEPT ![n] = "none"]]

\* Mutant of RemoveDirAll: fs::remove_dir, which refuses a directory that has
\* entries.
RemoveDirAll_nonrecursive(k, n) ==
    IF Unsearchable(n) THEN [ok |-> FALSE, io |-> "PermissionDenied", kind |-> k]
    ELSE IF ~LExists(n) \/ k[n] = "none" THEN [ok |-> FALSE, io |-> "NotFound", kind |-> k]
    ELSE IF k[n] # "dir" THEN [ok |-> FALSE, io |-> "NotADirectory", kind |-> k]
    ELSE IF \E c \in ChildrenOf(n) : k[c] # "none"
         THEN [ok |-> FALSE, io |-> "DirectoryNotEmpty", kind |-> k]
    ELSE RemoveTree(k, n)

\* fs::remove_dir_all(n): a symbolic link is removed itself, never followed.
RemoveDirAll(k, n) ==
    IF Unsearchable(n) THEN [ok |-> FALSE, io |-> "PermissionDenied", kind |-> k]
    ELSE IF ~LExists(n) \/ k[n] = "none" THEN [ok |-> FALSE, io |-> "NotFound", kind |-> k]
    ELSE IF k[n] = "link" THEN RemoveFile(k, n)
    ELSE IF k[n] = "file" THEN [ok |-> FALSE, io |-> "NotADirectory", kind |-> k]
    ELSE RemoveTree(k, n)

\* safe_delete: if is_directory { fs::remove_dir_all(path).map_err(..)? }
\* else { fs::remove_file(path).map_err(..)? }  Ok(())
safe_delete_remove ==
    /\ dpc = "remove"
    /\ LET r == IF dcall.is_directory THEN RemoveDirAll(kind, dcall.path)
                ELSE RemoveFile(kind, dcall.path)
       IN /\ kind' = r.kind
          /\ len' = [n \in Nodes |-> IF r.kind[n] = "none" THEN 0 ELSE len[n]]
          /\ mode' = [n \in Nodes |-> IF r.kind[n] = "none" THEN AllPerms ELSE mode[n]]
          /\ target' = [n \in Nodes |-> IF r.kind[n] = "none" THEN n ELSE target[n]]
          /\ dres' = IF r.ok THEN Deleted
                     ELSE Failure(IF dcall.is_directory THEN "Failed to delete directory"
                                  ELSE "Failed to delete file", dcall.path, r.io)
    /\ dpc' = "done"
    /\ UNCHANGED <<envBudget, analyzeVars, tasks, filterVars, otherVars, dcall>>

\* -------------------------------------------------------------- FileManager
\* One failed item: format!("{} ({})", entry.path.display(), friendly_msg). The
\* errors of safe_delete are anyhow messages, no io::Error, so friendly_msg is
\* e.to_string(): the message with the path and, where there is one, the OS
\* cause.
FailedItem(p, e) == [path |-> p, reason |-> [msg |-> e.msg, path |-> e.path, io |-> e.io]]

\* The entries delete_entries is done with.
Attempted == Len(deleted) + Len(failed)

\* delete_entries, the head of `for (i, entry) in entries.iter().enumerate()`:
\* the next entry goes to delete_single_entry, which is safe_delete; after
\* the last one, Ok((deleted, failed)) is returned.
delete_entries_next ==
    /\ mpc = "de_loop"
    /\ dpc = "idle"
    /\ IF Attempted < Len(batch)
       THEN LET entry == batch[Attempted + 1]
            IN /\ dcall' = [op |-> "safe_delete", path |-> entry.path,
                            is_directory |-> entry.is_directory]
               /\ dpc' = "sd_exists"
               /\ calls' = Append(calls, entry.path)
               /\ UNCHANGED mpc
       ELSE mpc' = "de_done" /\ UNCHANGED <<dpc, dcall, calls>>
    /\ UNCHANGED <<fsVars, envBudget, analyzeVars, tasks, filterVars, dres, cfg, selected,
                   valid_selected, unwritable, confirmed, batch, deleted, failed, callerVars>>

\* Mutant of delete_entries_match: the first failure ends the loop, as `?` on
\* the call would.
delete_entries_match_abort ==
    /\ mpc = "de_loop"
    /\ dpc = "done"
    /\ IF dres.tag = "ok"
       THEN deleted' = Append(deleted, dcall.path) /\ UNCHANGED <<failed, mpc>>
       ELSE failed' = Append(failed, FailedItem(dcall.path, dres)) /\ mpc' = "de_done"
            /\ UNCHANGED deleted
    /\ dpc' = "idle" /\ dcall' = NoCall /\ dres' = NoResult
    /\ UNCHANGED <<fsVars, envBudget, analyzeVars, tasks, filterVars, cfg, selected,
                   valid_selected, unwritable, confirmed, batch, calls, callerVars>>

\* Mutant of delete_entries_match: the path is reported as deleted whatever
\* the outcome.
delete_entries_match_both ==
    /\ mpc = "de_loop"
    /\ dpc = "done"
    /\ deleted' = Append(deleted, dcall.path)
    /\ failed' = IF dres.tag = "ok" THEN failed
                 ELSE Append(failed, FailedItem(dcall.path, dres))
    /\ dpc' = "idle" /\ dcall' = NoCall /\ dres' = NoResult
    /\ UNCHANGED <<fsVars, envBudget, analyzeVars, tasks, filterVars, cfg, mpc, selected,
                   valid_selected, unwritable, confirmed, batch, calls, callerVars>>

\* Mutant of delete_entries_match: a failure carries the path only.
delete_entries_match_bare ==
    /\ mpc = "de_loop"
    /\ dpc = "done"
    /\ IF dres.tag = "ok"
       THEN deleted' = Append(deleted, dcall.path) /\ UNCHANGED failed
       ELSE failed' = Append(failed, FailedItem(dcall.path, Failure("", dcall.path, "")))
            /\ UNCHANGED deleted
    /\ dpc' = "idle" /\ dcall' = NoCall /\ dres' = NoResult
    /\ UNCHANGED <<fsVars, envBudget, analyzeVars, tasks, filterVars, cfg, mpc, selected,
                   valid_selected, unwritable, confirmed, batch, calls, callerVars>>

\* delete_entries, match self.delete_single_entry(..): Ok(()) pushes the path
\* to `deleted`, Err(e) pushes path and message to `failed`.
delete_entries_match ==
    /\ mpc = "de_loop"
    /\ dpc = "done"
    /\ IF dres.tag = "ok"
       THEN deleted' = Append(deleted, dcall.path) /\ UNCHANGED failed
       ELSE failed' = Append(failed, FailedItem(dcall.path, dres)) /\ UNCHANGED deleted
    /\ dpc' = "idle" /\ dcall' = NoCall /\ dres' = NoResult
    /\ UNCHANGED <<fsVars, envBudget, analyzeVars, tasks, filterVars, cfg, mpc, selected,
                   valid_selected, unwritable, confirmed, batch, calls, callerVars>>

\* ------------------------------------------------------------ initial states
TreeOK(k) ==
    \A n \in Nodes :
        k[n] # "none" /\ ParentOf[n] # NoNode => k[ParentOf[n]] = "dir"

\* All ways to pick one value per path from the sets S[1], ..., S[8].
Choices(S) ==
    {<<a, b, c, d, e, f, g, h>> :
        a \in S[1], b \in S[2], c \in S[3], d \in S[4],
        e \in S[5], f \in S[6], g \in S[7], h \in S[8]}

\* The file systems a run starts from: for each path its kind from K, its
\* link target from T, its file length from L and its permissions from M.
FsInit(K, T, L, M) ==
    /\ kind \in {k \in Choices(K) : TreeOK(k)}
    /\ target \in Choices([n \in Nodes |-> IF kind[n] = "link" THEN T[n] ELSE {n}])
    /\ len \in Choices([n \in Nodes |-> IF kind[n] = "file" THEN L[n] ELSE {0}])
    /\ mode \in Choices([n \in Nodes |-> IF kind[n] = "none" THEN {AllPerms} ELSE M[n]])

AnalyzeIdle ==
    /\ max_depth = 0 /\ apc = "idle" /\ dirIter = <<>> /\ entries = <<>> /\ result = "pending"
FilterIdle == fin = <<>> /\ fmin = NoMin /\ fout = <<>> /\ fpc = "idle"
DeleteIdle == dpc = "idle" /\ dcall = NoCall /\ dres = NoResult
ManagerIdle ==
    /\ mpc = "idle" /\ selected = <<>> /\ valid_selected = <<>> /\ unwritable = <<>>
    /\ confirmed = "none" /\ batch = <<>> /\ deleted = <<>> /\ failed = <<>> /\ calls = <<>>
NoFirst == [returned |-> FALSE, result |-> "pending", entries |-> <<>>]
NoArgs == [path |-> NoNode, size_bytes |-> 0, is_directory |-> FALSE]
CallerIdle == first = NoFirst /\ ctor = NoArgs /\ built = NoEntry /\ freed_bytes = 0

\* Spec: one call of analyze_directory(Root) with its size tasks, while other
\* processes may remove or lock the root.
AnalyzeKinds ==
    <<{"none", "file", "dir"}, {"none", "file", "dir"}, {"none", "file", "link"},
      {"none", "file"}, {"none", "file", "dir", "link"}, {"none", "file"},
      {"none", "file"}, {"none"}>>
AnalyzeTargets == <<{1}, {2}, {1, 4}, {4}, {6}, {6}, {7}, {8}>>
AnalyzeLens == <<{1}, {1, 3}, {1, 3}, {3}, {1}, {2}, {4}, {1}>>
FullModes == [n \in Nodes |-> {AllPerms}]

Init ==
    /\ FsInit(AnalyzeKinds, AnalyzeTargets, AnalyzeLens, FullModes)
    /\ envBudget = MaxEnv
    /\ max_depth \in 0..MaxDepth
    /\ apc = "exists" /\ dirIter = <<>> /\ entries = <<>> /\ result = "pending"
    /\ tasks = <<>>
    /\ FilterIdle
    /\ DeleteIdle
    /\ cfg = "unix" /\ ManagerIdle /\ CallerIdle

Next ==
    \/ analyze_directory_exists
    \/ analyze_directory_is_dir
    \/ analyze_directory_read_dir
    \/ analyze_directory_spawn
    \/ analyze_directory_entry_error
    \/ analyze_directory_listed
    \/ analyze_directory_collect
    \/ \E i \in DOMAIN tasks : calculate_size_step(i)
    \/ EnvRemove(Root)
    \/ EnvChmod(Root)

Spec == Init /\ [][Next]_vars

\* SpecSize: one direct call of calculate_size on any path, with any depth
\* limit, while other processes may remove or lock any path.
SizeKinds ==
    <<{"dir"}, {"none", "file", "dir"}, {"none", "file", "link"}, {"none"},
      {"none", "file", "dir", "link"}, {"none", "file"}, {"none", "file", "dir"},
      {"none", "file"}>>
SizeTargets == <<{1}, {2}, {2, 6}, {4}, {1}, {6}, {7}, {8}>>
SizeLens ==
    <<{1}, {1, U64_MAX - 1}, {1}, {1}, {1, U64_MAX - 1}, {1, U64_MAX - 1}, {2}, {3}>>

InitSize ==
    /\ FsInit(SizeKinds, SizeTargets, SizeLens, FullModes)
    /\ envBudget = MaxEnv
    /\ \E p \in {1, 2, 3}, m \in 0..(MaxDepth + 1) :
          tasks = <<NewCall(p, m, FALSE, FALSE)>>
    /\ AnalyzeIdle
    /\ FilterIdle
    /\ DeleteIdle
    /\ cfg = "unix" /\ ManagerIdle /\ CallerIdle

NextSize ==
    \/ calculate_size_exists(1)
    \/ calculate_size_is_file(1)
    \/ calculate_size_metadata(1)
    \/ calculate_size_walk(1)
    \/ \E n \in Nodes : EnvRemove(n)
    \/ \E n \in Nodes : EnvChmod(n)

SpecSize == InitSize /\ [][NextSize]_vars

\* SpecWalk: one direct call of calculate_size on a directory that holds
\* unreadable directories and dangling links, while other processes may
\* remove or lock any path.
WalkKinds ==
    <<{"dir"}, {"file", "dir"}, {"none", "file", "link"}, {"none", "file"},
      {"none", "file", "dir"}, {"none", "file", "link"}, {"none", "file"}, {"none"}>>
WalkTargets == <<{1}, {2}, {2, 8}, {4}, {5}, {8}, {7}, {8}>>
WalkLens == <<{1}, {1}, {1}, {1}, {2}, {1}, {3}, {1}>>
WalkModes ==
    <<{AllPerms}, {AllPerms, {"w"}}, {AllPerms}, {AllPerms}, {AllPerms, {"w"}},
      {AllPerms}, {AllPerms}, {AllPerms}>>

InitWalk ==
    /\ FsInit(WalkKinds, WalkTargets, WalkLens, WalkModes)
    /\ envBudget = MaxEnv
    /\ \E p \in {1, 2}, m \in 0..(MaxDepth + 1) :
          tasks = <<NewCall(p, m, FALSE, FALSE)>>
    /\ AnalyzeIdle
    /\ FilterIdle
    /\ DeleteIdle
    /\ cfg = "unix" /\ ManagerIdle /\ CallerIdle

SpecWalk == InitWalk /\ [][NextSize]_vars

\* SpecLive: one call of analyze_directory(Root) on trees whose symbolic links
\* point to an ancestor or to each other; the runtime keeps polling the call
\* and every spawned size task gets to run.
LiveKinds ==
    <<{"dir"}, {"file", "dir", "link"}, {"none", "link"}, {"none", "link"},
      {"none", "file", "link"}, {"none"}, {"none"}, {"none"}>>
LiveTargets == <<{1}, {1}, {4}, {3}, {1, 2}, {6}, {7}, {8}>>
LiveLens == [n \in Nodes |-> {1}]
MaxTasks == Cardinality(ChildrenOf(Root))

InitLive ==
    /\ FsInit(LiveKinds, LiveTargets, LiveLens, FullModes)
    /\ envBudget = 0
    /\ max_depth \in 0..MaxDepth
    /\ apc = "exists" /\ dirIter = <<>> /\ entries = <<>> /\ result = "pending"
    /\ tasks = <<>>
    /\ FilterIdle
    /\ DeleteIdle
    /\ cfg = "unix" /\ ManagerIdle /\ CallerIdle

analyze_directory_step ==
    \/ analyze_directory_exists
    \/ analyze_directory_is_dir
    \/ analyze_directory_read_dir
    \/ analyze_directory_spawn
    \/ analyze_directory_listed
    \/ analyze_directory_collect

NextLive ==
    \/ analyze_directory_step
    \/ \E i \in DOMAIN tasks : calculate_size_step(i)

SpecLive ==
    /\ InitLive
    /\ [][NextLive]_vars
    /\ WF_vars(analyze_directory_step)
    /\ \A i \in 1..MaxTasks : WF_vars(calculate_size_step(i))

\* SpecFilter: one call of filter_entries on any slice of entries.
FilterSizes == 0..2
FilterEntries ==
    {DirectoryEntry_new(p, sz, p = 2) : p \in {2, 3, 4}, sz \in FilterSizes}

RECURSIVE SeqsUpTo(_, _)
SeqsUpTo(S, n) ==
    IF n = 0 THEN {<<>>}
    ELSE LET shorter == SeqsUpTo(S, n - 1)
         IN shorter \cup {Append(q, x) : q \in shorter, x \in S}

InitFilter ==
    /\ FsInit([n \in Nodes |-> {"none"}], [n \in Nodes |-> {n}], [n \in Nodes |-> {0}], FullModes)
    /\ envBudget = 0
    /\ tasks = <<>>
    /\ AnalyzeIdle
    /\ fin \in SeqsUpTo(FilterEntries, MaxEntries)
    /\ fmin \in {NoMin} \cup FilterSizes \cup {3}
    /\ fout = <<>>
    /\ fpc = "ready"
    /\ DeleteIdle
    /\ cfg = "unix" /\ ManagerIdle /\ CallerIdle

NextFilter == filter_entries_call

SpecFilter == InitFilter /\ [][NextFilter]_vars

\* SpecDelete: one call of can_delete or safe_delete on any path, while other
\* processes may remove or lock any path.
DeleteKinds ==
    <<{"dir"}, {"none", "file", "dir"}, {"none", "file", "link"}, {"none", "file"},
      {"none", "file", "dir"}, {"none"}, {"none", "file"}, {"none"}>>
DeleteTargets == <<{1}, {2}, {2, 4}, {4}, {5}, {6}, {7}, {8}>>
DeleteLens == [n \in Nodes |-> {1}]
DeleteModes ==
    <<{AllPerms, {"rx"}}, {AllPerms, {"rx"}, {"w"}}, {AllPerms}, {AllPerms, {"rx"}},
      {AllPerms, {"rx"}}, {AllPerms}, {AllPerms}, {AllPerms}>>

InitDelete ==
    /\ FsInit(DeleteKinds, DeleteTargets, DeleteLens, DeleteModes)
    /\ envBudget = MaxEnv
    /\ tasks = <<>>
    /\ AnalyzeIdle
    /\ FilterIdle
    /\ \E op \in {"can_delete", "safe_delete"}, p \in {2, 3, 4, 5}, d \in BOOLEAN :
          /\ op = "can_delete" => ~d
          /\ dcall = [op |-> op, path |-> p, is_directory |-> d]
          /\ dpc = IF op = "can_delete" THEN "cd_exists" ELSE "sd_exists"
    /\ dres = NoResult
    /\ cfg \in {"unix", "windows"}
    /\ ManagerIdle
    /\ CallerIdle

NextDelete ==
    \/ can_delete_exists
    \/ can_delete_metadata
    \/ safe_delete_exists
    \/ safe_delete_clear_readonly
    \/ safe_delete_remove
    \/ \E n \in Nodes : EnvRemove(n)
    \/ \E n \in Nodes : EnvChmod(n)
    \/ \E n \in Nodes : EnvReadonly(n)

SpecDelete == InitDelete /\ [][NextDelete]_vars

\* SpecTwice: two calls of analyze_directory(Root) in a row on a tree that
\* nothing else touches.
TwiceKinds ==
    <<{"file", "dir"}, {"none", "file", "dir"}, {"none", "file", "link"}, {"none", "file"},
      {"none", "file"}, {"none"}, {"none"}, {"none"}>>
TwiceTargets == <<{1}, {2}, {2, 4}, {4}, {5}, {6}, {7}, {8}>>
TwiceLens == <<{1}, {1}, {1, 3}, {3}, {2}, {1}, {1}, {1}>>

InitTwice ==
    /\ FsInit(TwiceKinds, TwiceTargets, TwiceLens, FullModes)
    /\ envBudget = 0
    /\ max_depth \in 0..MaxDepth
    /\ apc = "exists" /\ dirIter = <<>> /\ entries = <<>> /\ result = "pending"
    /\ tasks = <<>>
    /\ FilterIdle
    /\ DeleteIdle
    /\ cfg = "unix" /\ ManagerIdle /\ CallerIdle

NextTwice ==
    \/ analyze_directory_exists
    \/ analyze_directory_is_dir
    \/ analyze_directory_read_dir
    \/ analyze_directory_spawn
    \/ analyze_directory_listed
    \/ analyze_directory_collect
    \/ \E i \in DOMAIN tasks : calculate_size_step(i)
    \/ analyze_directory_again

SpecTwice == InitTwice /\ [][NextTwice]_vars

\* SpecEntry: one call of DirectoryEntry::new with any size up to MaxSize.
MaxSize == 2100

InitEntry ==
    /\ FsInit([n \in Nodes |-> {"none"}], [n \in Nodes |-> {n}], [n \in Nodes |-> {0}], FullModes)
    /\ envBudget = 0
    /\ tasks = <<>>
    /\ AnalyzeIdle
    /\ FilterIdle
    /\ DeleteIdle
    /\ cfg = "unix"
    /\ ManagerIdle
    /\ first = NoFirst
    /\ ctor \in [path : {2, 3}, size_bytes : 0..MaxSize, is_directory : BOOLEAN]
    /\ built = NoEntry
    /\ freed_bytes = 0

NextEntry == DirectoryEntry_new_call

SpecEntry == InitEntry /\ [][NextEntry]_vars

\* SpecBatch: one call of delete_entries on any slice of entries for the
\* children of the root, repeated paths included, while other processes may
\* remove a path or lock the root.
MaxBatch == 3
BatchKinds ==
    <<{"dir"}, {"file", "dir"}, {"file"}, {"none", "file"}, {"none", "file"}, {"none"},
      {"none"}, {"none"}>>
BatchModes ==
    <<{AllPerms, {"rx"}}, {AllPerms}, {AllPerms, {"rx"}}, {AllPerms}, {AllPerms},
      {AllPerms}, {AllPerms}, {AllPerms}>>
BatchPaths == {2, 3, 4}

InitBatch ==
    /\ FsInit(BatchKinds, [n \in Nodes |-> {n}], [n \in Nodes |-> {1}], BatchModes)
    /\ envBudget = MaxEnv
    /\ tasks = <<>>
    /\ AnalyzeIdle
    /\ FilterIdle
    /\ DeleteIdle
    /\ cfg = "unix"
    /\ mpc = "de_loop"
    /\ batch \in SeqsUpTo({DirectoryEntry_new(p, 1, kind[p] = "dir") : p \in BatchPaths},
                          MaxBatch)
    /\ selected = <<>> /\ valid_selected = <<>> /\ unwritable = <<>> /\ confirmed = "none"
    /\ deleted = <<>> /\ failed = <<>> /\ calls = <<>>
    /\ CallerIdle

NextBatch ==
    \/ delete_entries_next
    \/ delete_entries_match
    \/ can_delete_exists
    \/ can_delete_metadata
    \/ safe_delete_exists
    \/ safe_delete_remove
    \/ \E n \in BatchPaths : EnvRemove(n)
    \/ EnvChmod(Root)

SpecBatch == InitBatch /\ [][NextBatch]_vars

\* ------------------------------------------------------------------ claims
IsSortedDesc(s) == \A i \in 1..(Len(s) - 1) : s[i].size_bytes >= s[i + 1].size_bytes

\* The place of path p in the order in which the children were listed.
ListedAt(p) == CHOOSE i \in DOMAIN tasks : tasks[i].path = p

\* Other processes have not touched the file system since the run began.
Undisturbed == envBudget = MaxEnv

Levels(d, n) == LevelTable[n] - LevelTable[d]

\* The regular files between 1 and m levels below directory d.
FilesWithin(d, m) ==
    {n \in Nodes : d \in AncestorsOf(n) /\ kind[n] = "file" /\ Levels(d, n) <= m}

RECURSIVE SumLen(_)
SumLen(S) == IF S = {} THEN 0 ELSE LET n == CHOOSE x \in S : TRUE IN len[n] + SumLen(S \ {n})

Clamp(x) == IF x > U64_MAX THEN U64_MAX ELSE x

\* C1: whenever analyze_directory returns Ok the entries are sorted by
\* size_bytes descending, and entries of equal size keep the order in which
\* their children were listed, whatever the order the size tasks finish in.
C1_SortedStable ==
    result = "ok" =>
        /\ IsSortedDesc(entries)
        /\ \A i, j \in DOMAIN entries :
              i < j /\ entries[i].size_bytes = entries[j].size_bytes
                  => ListedAt(entries[i].path) < ListedAt(entries[j].path)

\* Ok was returned with a tie and with an entry that sorting moved in front
\* of one listed before it.
C1_Witness ==
    /\ result = "ok"
    /\ \E i, j \in DOMAIN entries :
          i < j /\ entries[i].size_bytes = entries[j].size_bytes
    /\ \E i, j \in DOMAIN entries :
          i < j /\ ListedAt(entries[i].path) > ListedAt(entries[j].path)

\* C2 as stated: with max_depth = d >= 1 a directory child is reported with the
\* sum of the lengths of the regular files at most d levels below it.
C2_SumWithinDepth ==
    result = "ok" /\ Undisturbed /\ max_depth >= 1 =>
        \A i \in DOMAIN entries :
            kind[entries[i].path] = "dir" =>
                entries[i].size_bytes =
                    Clamp(SumLen(FilesWithin(entries[i].path, max_depth)))

\* C2 amended: a child reported as a directory gets the sum of the lengths of
\* the regular files at most d - 1 levels below it (0 with d = 1).
C2_SumWithinDepthMinusOne ==
    result = "ok" /\ Undisturbed /\ max_depth >= 1 =>
        \A i \in DOMAIN entries :
            entries[i].is_directory =>
                entries[i].size_bytes =
                    Clamp(SumLen(FilesWithin(Resolve(entries[i].path), max_depth - 1)))

\* A directory child was sized with files inside the bound counted and a
\* file beyond the bound left out.
C2_Witness ==
    /\ result = "ok" /\ Undisturbed /\ max_depth = 2
    /\ kind[7] = "file"
    /\ \E i \in DOMAIN entries :
          /\ entries[i].path = 2 /\ entries[i].is_directory
          /\ entries[i].size_bytes = len[5] + len[6]
          /\ entries[i].size_bytes > 0

\* C3: the bytes of a symbolic link's target are never added to a size, also
\* when the link is itself a child of the analysed root.
C3_LinksNeverFollowed ==
    result = "ok" /\ Undisturbed =>
        \A i \in DOMAIN entries :
            /\ kind[entries[i].path] = "link" => entries[i].size_bytes = 0
            /\ kind[entries[i].path] = "dir" =>
                  entries[i].size_bytes
                      <= SumLen(FilesWithin(entries[i].path, MaxHops))

\* C4: a root that does not exist gives "does not exist", a root that is not
\* a directory gives "is not a directory", and either error is returned from
\* the two checks, with nothing listed and no task spawned.
C4_RootErrorsFirst ==
    /\ [](apc = "done" /\ Undisturbed /\ kind[Root] = "none" => result = "does not exist")
    /\ [](apc = "done" /\ Undisturbed /\ kind[Root] = "file" => result = "is not a directory")
    /\ [](result \in {"does not exist", "is not a directory"}
             => tasks = <<>> /\ dirIter = <<>> /\ entries = <<>>)
    /\ [][result # result' /\ result' \in {"does not exist", "is not a directory"}
             => apc \in {"exists", "is_dir"}]_vars

\* The call on a regular file has returned "is not a directory".
C4_Witness ==
    apc = "done" /\ Undisturbed /\ kind[Root] = "file" /\ result = "is not a directory"

\* C5: analyze_directory fails only because the root does not exist or is not
\* a directory; once both checks have passed, nothing makes the call fail.
C5_OnlyRootErrors ==
    apc = "done" => result \in {"ok", "does not exist", "is not a directory"}

\* C6: calculate_size returns Ok(0) for a path that does not exist, and a path
\* removed during the call never makes it return an error.
C6_VanishedIsZero ==
    \A i \in DOMAIN tasks :
        tasks[i].pc = "done" =>
            /\ tasks[i].ret.err # "NotFound"
            /\ Undisturbed /\ ~Exists(tasks[i].path) => tasks[i].ret = Ok(0)

\* C7: the total is accumulated with saturating addition: the walk returns
\* min(sum of the lengths, U64_MAX) and the counter never leaves 0..U64_MAX.
C7_Saturates ==
    \A i \in DOMAIN tasks :
        /\ tasks[i].total_size \in 0..U64_MAX
        /\ tasks[i].pc = "done" /\ Undisturbed /\ IsDir(tasks[i].path) =>
              /\ tasks[i].ret.ok
              /\ tasks[i].ret.val =
                    Clamp(SumLen(FilesWithin(Resolve(tasks[i].path), tasks[i].max_depth)))

\* A walk over files whose lengths add up to more than U64_MAX has returned.
C7_Witness ==
    \E i \in DOMAIN tasks :
        /\ tasks[i].pc = "done" /\ Undisturbed /\ IsDir(tasks[i].path)
        /\ SumLen(FilesWithin(Resolve(tasks[i].path), tasks[i].max_depth)) > U64_MAX
        /\ tasks[i].ret = Ok(U64_MAX)

\* The subsequence of s with size_bytes >= m, by position.
AtLeast(s, m) == SelectSeq(s, LAMBDA e : e.size_bytes >= m)

C9_CanDelete ==
    /\ [](dcall.op = "can_delete" /\ dpc = "done" /\ Undisturbed =>
            dres = Bool(Exists(dcall.path) /\ "w" \in mode[Resolve(dcall.path)]))
    /\ [][dcall.op = "can_delete" /\ dpc # "done" /\ dpc' = "done" /\ ~Exists(dcall.path)
             => dres' = Bool(FALSE)]_vars

\* can_delete answered true for a path in a directory that cannot be written.
C9_Witness ==
    /\ dcall.op = "can_delete" /\ dpc = "done" /\ Undisturbed
    /\ dres = Bool(TRUE)
    /\ "w" \notin mode[ParentOf[dcall.path]]

\* C10: safe_delete on a path that does not exist returns the "does not
\* exist" error naming the path, straight from its first check (before the
\* permission check), and the file system is left as it was.
C10_DeleteMissing ==
    /\ [][dcall.op = "safe_delete" /\ dpc = "sd_exists" /\ dpc' # dpc /\ ~Exists(dcall.path)
             => /\ dpc' = "done"
                /\ dres' = Failure("Path does not exist", dcall.path, "")
                /\ UNCHANGED fsVars]_vars
    /\ [](dcall.op = "safe_delete" /\ dpc = "done" /\ Undisturbed /\ kind[dcall.path] = "none"
             => dres \in {Deleted, Failure("Path does not exist", dcall.path, "")})

\* safe_delete has refused a path that is not there.
C10_Witness ==
    /\ dcall.op = "safe_delete" /\ dpc = "done" /\ Undisturbed
    /\ kind[dcall.path] = "none"
    /\ dres = Failure("Path does not exist", dcall.path, "")

\* Where safe_delete stands once can_delete has let it through.
PastChecks == {"sd_readonly", "remove"}

Refused(p) == Failure("Insufficient permissions to delete", p, "")

\* C11: when can_delete is false for an existing path, safe_delete returns the
\* "Insufficient permissions" error naming the path; it gets to the removal
\* call only after can_delete answered true, and no step before the removal
\* call changes the file system, so the refused path is left as it was.
C11_RefusedUntouched ==
    /\ [](dcall.op = "safe_delete" /\ dpc = "done" /\ Undisturbed
             /\ Exists(dcall.path) /\ ~owner_write(mode[Resolve(dcall.path)])
          => dres = Refused(dcall.path))
    /\ [][dcall.op = "safe_delete" /\ dres' # dres /\ dres' = Refused(dcall.path)
             => dpc \in {"cd_exists", "cd_metadata"} /\ UNCHANGED fsVars]_vars
    /\ [][dpc' \in PastChecks /\ dpc \notin PastChecks
             => /\ dpc = "cd_metadata"
                /\ Exists(dcall.path) /\ owner_write(mode[Resolve(dcall.path)])]_vars
    /\ [][envBudget' = envBudget /\ dpc \notin PastChecks => UNCHANGED fsVars]_vars

\* safe_delete has refused a read-only file that sits in a writable directory
\* and is still there.
C11_Witness ==
    /\ dcall.op = "safe_delete" /\ dpc = "done" /\ Undisturbed
    /\ kind[dcall.path] = "file" /\ ~owner_write(mode[dcall.path])
    /\ owner_write(mode[ParentOf[dcall.path]])
    /\ dres = Refused(dcall.path)

\* The error says that the path is not there: safe_delete's own "does not
\* exist", or a removal call that failed with NotFound.
IsNotFound(r) == r.tag = "err" /\ (r.msg = "Path does not exist" \/ r.io = "NotFound")

\* C12: when another process has removed the path after safe_delete's first
\* existence check and before its removal call, safe_delete returns a NotFound
\* error, never the permission error or another failure.
C12_RemovedIsNotFound ==
    [][/\ dcall.op = "safe_delete"
       /\ dpc \in {"cd_exists", "cd_metadata", "sd_readonly", "remove"} /\ dpc' = "done"
       /\ kind[dcall.path] = "none" /\ ~Unsearchable(dcall.path)
       => IsNotFound(dres')]_vars

\* C13: for an existing path that is read-only, safe_delete goes through the
\* attribute clearing and then makes the removal call, so what it returns is
\* what the removal call gave, never the refusal of the permission check.
C13_ClearsThenRemoves ==
    cfg = "windows" /\ dcall.op = "safe_delete" /\ dpc = "done" /\ Undisturbed
        /\ Exists(dcall.path) /\ ~owner_write(mode[Resolve(dcall.path)])
    => dres # Refused(dcall.path)

\* What is at or below path p.
PresentBelow(p) ==
    IF kind[p] = "dir" THEN {n \in SubtreeOf(p) : kind[n] # "none"} ELSE {p}

\* The OS lets entry n go: on unix the directory holding it is writable, on
\* windows the entry is not read-only.
MayGo(n) == IF cfg = "windows" THEN "w" \in mode[n] ELSE "w" \in mode[ParentOf[n]]

\* The OS allows the removal call that safe_delete(p, is_directory) makes:
\* remove_file takes anything but a directory; remove_dir_all takes a link or
\* a directory in which every directory can be listed and every entry may go.
Removable(p, is_directory) ==
    IF ~is_directory THEN kind[p] \in {"file", "link"} /\ MayGo(p)
    ELSE /\ kind[p] \in {"dir", "link"}
         /\ \A n \in PresentBelow(p) : MayGo(n) /\ (kind[n] = "dir" => "rx" \in mode[n])

\* C14 as stated: with no concurrent modification, safe_delete on an existing
\* path that can_delete accepts, with is_directory telling its type, returns
\* Ok and the path is gone.
C14_DeletesWhenWritable ==
    [][/\ dcall.op = "safe_delete" /\ dpc = "remove" /\ dpc' = "done" /\ Undisturbed
       /\ dcall.is_directory <=> kind[dcall.path] = "dir"
       => dres' = Deleted /\ kind'[dcall.path] = "none"]_vars

\* C14 amended: with no concurrent modification, the removal call of
\* safe_delete succeeds exactly when the OS allows it; then the path and
\* everything below it is gone; otherwise the error names the path and the OS
\* cause; in both cases everything outside the path is as before.
C14_DeletesWhenAllowed ==
    [][dcall.op = "safe_delete" /\ dpc = "remove" /\ dpc' = "done" /\ Undisturbed
       => /\ dres' = Deleted <=> Removable(dcall.path, dcall.is_directory)
          /\ dres' = Deleted =>
                \A n \in Nodes :
                    kind'[n] = IF n \in SubtreeOf(dcall.path) THEN "none" ELSE kind[n]
          /\ dres' # Deleted =>
                /\ dres'.tag = "err" /\ dres'.path = dcall.path /\ dres'.io # ""
                /\ kind'[dcall.path] = kind[dcall.path]
                /\ dres'.msg = IF dcall.is_directory THEN "Failed to delete directory"
                               ELSE "Failed to delete file"
          /\ \A n \in Nodes \ SubtreeOf(dcall.path) :
                kind'[n] = kind[n] /\ len'[n] = len[n] /\ mode'[n] = mode[n]
                    /\ target'[n] = target[n]]_vars

\* safe_delete has removed directory 2 and returned Ok, and its sibling 4 is
\* still there.
C14_Witness ==
    /\ dcall = [op |-> "safe_delete", path |-> 2, is_directory |-> TRUE]
    /\ dpc = "done" /\ Undisturbed /\ dres = Deleted
    /\ kind[2] = "none" /\ kind[4] = "file"

PathsOf(es) == [i \in DOMAIN es |-> es[i].path]

\* b is d and f shuffled together, each in its own order.
RECURSIVE Interleaved(_, _, _)
Interleaved(b, d, f) ==
    IF b = <<>> THEN d = <<>> /\ f = <<>>
    ELSE \/ d # <<>> /\ Head(d) = Head(b) /\ Interleaved(Tail(b), Tail(d), f)
         \/ f # <<>> /\ Head(f) = Head(b) /\ Interleaved(Tail(b), d, Tail(f))

\* C15: delete_entries hands the entries to safe_delete one at a time and in
\* input order, each one once and whatever happened to the ones before it; it
\* returns only after the last one, and then the two lists, each in input
\* order, share out the whole input.
C15_EveryEntryOnce ==
    /\ [](mpc \in {"de_loop", "de_done"} =>
            /\ calls = SubSeq(PathsOf(batch), 1, Len(calls))
            /\ Len(calls) = Attempted + (IF dpc = "idle" THEN 0 ELSE 1)
            /\ Interleaved(SubSeq(PathsOf(batch), 1, Attempted), deleted, PathsOf(failed)))
    /\ [](mpc = "de_done" =>
            /\ calls = PathsOf(batch)
            /\ Len(deleted) + Len(failed) = Len(batch))
    /\ [][mpc = "de_loop" /\ mpc' # "de_loop" => mpc' = "de_done" /\ Attempted = Len(batch)]_vars

\* delete_entries has returned after a failure on an earlier entry and a
\* deletion of a later one.
C15_Witness ==
    /\ mpc = "de_done" /\ Len(batch) = MaxBatch
    /\ failed # <<>> /\ deleted # <<>>
    /\ batch[1].path = failed[1].path
    /\ batch[Len(batch)].path = deleted[Len(deleted)]

Range(q) == {q[i] : i \in DOMAIN q}

Distinct(q) == \A i, j \in DOMAIN q : q[i] = q[j] => i = j

ReasonFits(item, is_directory) ==
    LET p == item.path
        r == item.reason
    IN /\ r.path = p
       /\ r.msg # ""
       /\ \/ r.msg = "Path does not exist" /\ ~Exists(p)
          \/ /\ r.msg = "Insufficient permissions to delete"
             /\ Exists(p) /\ ~owner_write(mode[Resolve(p)])
          \/ /\ r.msg = (IF is_directory THEN "Failed to delete directory"
                          ELSE "Failed to delete file")
             /\ r.io # ""
             /\ Exists(p) /\ owner_write(mode[Resolve(p)]) /\ ~Removable(p, is_directory)

\* C17: a failed deletion is always pushed to the failed list with the path
\* and the message of the error; over a file system that nothing else changes,
\* the deleted paths are gone and every failed item belongs to an entry that
\* cannot be deleted, with the reason that applies: "does not exist" for a
\* path that is not there, missing permissions for a read-only one, the OS
\* cause for a removal the OS refuses.
C17_FailuresReported ==
    /\ [][mpc = "de_loop" /\ dpc = "done" /\ dpc' # dpc /\ dres.tag = "err"
             => /\ failed' = Append(failed, FailedItem(dcall.path, dres))
                /\ dres.msg # "" /\ dres.path = dcall.path
                /\ deleted' = deleted]_vars
    /\ [](mpc = "de_done" /\ Undisturbed =>
            /\ \A i \in DOMAIN deleted : kind[deleted[i]] = "none"
            /\ \A i \in DOMAIN failed :
                  \E j \in DOMAIN batch :
                      /\ batch[j].path = failed[i].path
                      /\ ReasonFits(failed[i], batch[j].is_directory)
            /\ \A j \in DOMAIN batch :
                  kind[batch[j].path] # "none" =>
                      \E i \in DOMAIN failed : failed[i].path = batch[j].path)

\* A batch of three entries, one of them for a path that no longer exists,
\* has given two deleted paths and one failed item that says so.
C17_Witness ==
    /\ mpc = "de_done" /\ Undisturbed
    /\ Len(batch) = 3 /\ Distinct(PathsOf(batch))
    /\ Len(deleted) = 2 /\ Len(failed) = 1
    /\ failed[1].reason = [msg |-> "Path does not exist", path |-> failed[1].path, io |-> ""]

\* What an entry says about its path, as a set over the whole result.
Facts(es) ==
    {[path |-> es[i].path, size_bytes |-> es[i].size_bytes,
      is_directory |-> es[i].is_directory] : i \in DOMAIN es}

\* C18: no step of analyze_directory or of its size tasks changes the file
\* system, and a second call with the same depth on the unmodified tree
\* returns what the first one returned: the same outcome and, for Ok, the same
\* number of entries with the same path, size_bytes and is_directory.
C18_Idempotent ==
    /\ [][UNCHANGED fsVars]_vars
    /\ [](first.returned /\ apc = "done" =>
            /\ result = first.result
            /\ Len(entries) = Len(first.entries)
            /\ Facts(entries) = Facts(first.entries))

\* The second call has returned Ok with at least two entries, one of them of
\* non-zero size.
C18_Witness ==
    /\ first.returned /\ apc = "done" /\ result = "ok"
    /\ Len(entries) >= 2
    /\ \E i \in DOMAIN entries : entries[i].size_bytes > 0 /\ entries[i].is_directory
    /\ Facts(entries) = Facts(first.entries)

\* The unit that a 1000-based scale gives n, as [unit, scale].
DecimalUnit(n) ==
    IF n < 1000 THEN [unit |-> "B", scale |-> 1]
    ELSE IF n < 1000000 THEN [unit |-> "kB", scale |-> 1000]
    ELSE [unit |-> "MB", scale |-> 1000000]

CanDeleteNow(p) == Exists(p) /\ owner_write(mode[Resolve(p)])

\* validate_entries: entry.path.exists() && PlatformUtils::can_delete(&entry.path)
validate_entries(es) == SelectSeq(es, LAMBDA e : Exists(e.path) /\ CanDeleteNow(e.path))

\* get_unwritable_entries: entry.path.exists() && !PlatformUtils::can_delete(&entry.path)
get_unwritable_entries(es) == SelectSeq(es, LAMBDA e : Exists(e.path) /\ ~CanDeleteNow(e.path))

\* entries.retain(|e| e.is_directory) / entries.retain(|e| !e.is_directory)
Retain(es, which) ==
    IF which = "dirs_only" THEN SelectSeq(es, LAMBDA e : e.is_directory)
    ELSE IF which = "files_only" THEN SelectSeq(es, LAMBDA e : ~e.is_directory)
    ELSE es

\* The entries of es at the positions in S, in the order of es.
RECURSIVE Pick(_, _, _)
Pick(es, S, i) ==
    IF i > Len(es) THEN <<>>
    ELSE (IF i \in S THEN <<es[i]>> ELSE <<>>) \o Pick(es, S, i + 1)

\* main: the filters of the command line, then the exit on an empty list.
main_filter ==
    /\ mpc = "filter"
    /\ \E min_size \in {NoMin, 2}, which \in {"all", "dirs_only", "files_only"} :
          entries' = Retain(filter_entries(entries, min_size), which)
    /\ mpc' = IF entries' = <<>> THEN "exit" ELSE "select"
    /\ UNCHANGED <<fsVars, envBudget, max_depth, apc, dirIter, result, tasks, filterVars,
                   deleteVars, cfg, selected, valid_selected, unwritable, confirmed, batch,
                   deleted, failed, calls, callerVars>>

\* main: select_entries(&entries): the user ticks any of the items, or
\* cancels; with nothing selected main returns.
main_select ==
    /\ mpc = "select"
    /\ \E S \in SUBSET DOMAIN entries : selected' = Pick(entries, S, 1)
    /\ mpc' = IF selected' = <<>> THEN "exit" ELSE "validate"
    /\ UNCHANGED <<fsVars, envBudget, analyzeVars, tasks, filterVars, deleteVars, cfg,
                   valid_selected, unwritable, confirmed, batch, deleted, failed, calls,
                   callerVars>>

\* main: let valid_selected = file_manager.validate_entries(&selected);
main_validate ==
    /\ mpc = "validate"
    /\ valid_selected' = validate_entries(selected)
    /\ mpc' = "unwritable"
    /\ UNCHANGED <<fsVars, envBudget, analyzeVars, tasks, filterVars, deleteVars, cfg,
                   selected, unwritable, confirmed, batch, deleted, failed, calls, callerVars>>

\* main: let unwritable = file_manager.get_unwritable_entries(&selected);
main_unwritable ==
    /\ mpc = "unwritable"
    /\ unwritable' = get_unwritable_entries(selected)
    /\ mpc' = "check"
    /\ UNCHANGED <<fsVars, envBudget, analyzeVars, tasks, filterVars, deleteVars, cfg,
                   selected, valid_selected, confirmed, batch, deleted, failed, calls,
                   callerVars>>

\* main: the warnings, with missing = selected.len() - valid_selected.len()
\* - unwritable.len() in usize (a build with overflow checks panics when that
\* goes below zero, one without them goes on), and the exit when nothing
\* valid is left.
main_check ==
    /\ mpc = "check"
    /\ \E overflow_checks \in BOOLEAN :
          mpc' = IF /\ Len(valid_selected) # Len(selected)
                    /\ Len(selected) < Len(valid_selected) + Len(unwritable)
                    /\ overflow_checks
                 THEN "panicked"
                 ELSE IF valid_selected = <<>> THEN "exit" ELSE "confirm"
    /\ UNCHANGED <<fsVars, envBudget, analyzeVars, tasks, filterVars, deleteVars, cfg,
                   selected, valid_selected, unwritable, confirmed, batch, deleted, failed,
                   calls, callerVars>>

\* Mutant of main_confirm: the deletion goes ahead whatever the answer.
main_confirm_unasked ==
    /\ mpc = "confirm"
    /\ \E answer \in {"yes", "no"} : confirmed' = answer
    /\ mpc' = "de_loop" /\ batch' = valid_selected
    /\ UNCHANGED <<fsVars, envBudget, analyzeVars, tasks, filterVars, deleteVars, cfg,
                   selected, valid_selected, unwritable, deleted, failed, calls, callerVars>>

\* main: if file_manager.confirm_deletion(&valid_selected)? { delete_entries
\* (&valid_selected) .. }. confirm_deletion returns Ok(false) for an empty
\* slice without a prompt; else it is the user's answer, or the error of the
\* prompt, with which main returns.
main_confirm ==
    /\ mpc = "confirm"
    /\ IF valid_selected = <<>> THEN confirmed' = "unprompted"
       ELSE \E answer \in {"yes", "no", "error"} : confirmed' = answer
    /\ IF confirmed' = "yes"
       THEN mpc' = "de_loop" /\ batch' = valid_selected
       ELSE mpc' = "exit" /\ UNCHANGED batch
    /\ UNCHANGED <<fsVars, envBudget, analyzeVars, tasks, filterVars, deleteVars, cfg,
                   selected, valid_selected, unwritable, deleted, failed, calls, callerVars>>

\* The text of each path, character by character: the root is "r", its
\* children are "r/a", "r/ab" and "r/c", and so on down the tree.
PathText ==
    << <<"r">>,
       <<"r", "/", "a">>,
       <<"r", "/", "a", "b">>,
       <<"r", "/", "c">>,
       <<"r", "/", "a", "/", "d">>,
       <<"r", "/", "a", "/", "e">>,
       <<"r", "/", "a", "/", "d", "/", "f">>,
       <<"r", "/", "a", "/", "d", "/", "f", "/", "g">> >>

\* entry.path.to_string_lossy().to_string(): the text of the path.
to_string_lossy(p) == PathText[p]

\* str::contains: pat occurs somewhere in text.
contains(text, pat) ==
    \E i \in 0..(Len(text) - Len(pat)) : SubSeq(text, i + 1, i + Len(pat)) = pat

\* The sum of size_bytes over es, unbounded.
RECURSIVE SumSizes(_)
SumSizes(es) == IF es = <<>> THEN 0 ELSE Head(es).size_bytes + SumSizes(Tail(es))

\* valid_selected.iter().filter(|entry| deleted.iter().any(|d| d.contains(
\* &entry.path.to_string_lossy().to_string()))): the entries main counts as
\* freed. `deleted` holds the texts delete_entries pushed.
CountedAsFreed(es, del) ==
    SelectSeq(es, LAMBDA entry :
        \E j \in DOMAIN del :
            contains(to_string_lossy(del[j]), to_string_lossy(entry.path)))

\* main: delete_entries has returned; the results are printed, freed_bytes
\* is summed in u64 (a build with overflow checks panics when the sum does
\* not fit, one without them wraps) and main returns.
main_report ==
    /\ mpc = "de_done"
    /\ LET total == SumSizes(CountedAsFreed(valid_selected, deleted))
       IN \E overflow_checks \in BOOLEAN :
             IF total > U64_MAX /\ overflow_checks
             THEN mpc' = "panicked" /\ UNCHANGED freed_bytes
             ELSE mpc' = "exit" /\ freed_bytes' = total % (U64_MAX + 1)
    /\ UNCHANGED <<fsVars, envBudget, analyzeVars, tasks, filterVars, deleteVars, cfg,
                   selected, valid_selected, unwritable, confirmed, batch, deleted, failed,
                   calls, first, ctor, built>>

\* SpecMain: main from the return of analyze_directory on, while other
\* processes may remove a child of the root, mark it read-only, or lock the
\* root. The run starts with the entries an analysis of the tree returns.
MainKinds ==
    <<{"dir"}, {"file", "dir"}, {"file"}, {"none", "file"}, {"none", "file"}, {"none"},
      {"none"}, {"none"}>>
MainLens == <<{1}, {1}, {2}, {3}, {2}, {1}, {1}, {1}>>
MainModes ==
    <<{AllPerms}, {AllPerms}, {AllPerms, {"rx"}}, {AllPerms}, {AllPerms}, {AllPerms},
      {AllPerms}, {AllPerms}>>

\* What analyze_directory reports for child c of the root.
Analysed(c) ==
    DirectoryEntry_new(c,
        IF IsFile(c) THEN len[Resolve(c)]
        ELSE Clamp(SumLen(FilesWithin(Resolve(c), saturating_sub(max_depth, 1)))),
        IsDir(c))

InitMain ==
    /\ FsInit(MainKinds, [n \in Nodes |-> {n}], MainLens, MainModes)
    /\ envBudget = MaxEnv
    /\ max_depth \in 1..MaxDepth
    /\ apc = "done" /\ dirIter = <<>> /\ result = "ok"
    /\ entries = sort_by_size_desc([i \in DOMAIN Listing(Root) |-> Analysed(Listing(Root)[i].node)])
    /\ tasks = <<>>
    /\ FilterIdle
    /\ DeleteIdle
    /\ cfg = "unix"
    /\ mpc = "filter"
    /\ selected = <<>> /\ valid_selected = <<>> /\ unwritable = <<>> /\ confirmed = "none"
    /\ batch = <<>> /\ deleted = <<>> /\ failed = <<>> /\ calls = <<>>
    /\ first = [returned |-> TRUE, result |-> "ok", entries |-> entries]
    /\ ctor = NoArgs /\ built = NoEntry /\ freed_bytes = 0

NextMain ==
    \/ main_filter
    \/ main_select
    \/ main_validate
    \/ main_unwritable
    \/ main_check
    \/ main_confirm
    \/ delete_entries_next
    \/ delete_entries_match
    \/ can_delete_exists
    \/ can_delete_metadata
    \/ safe_delete_exists
    \/ safe_delete_remove
    \/ main_report
    \/ \E n \in BatchPaths : EnvRemove(n)
    \/ \E n \in BatchPaths : EnvReadonly(n)
    \/ EnvChmod(Root)

SpecMain == InitMain /\ [][NextMain]_vars

\* C19: a path reaches safe_delete only from an entry that the analysis
\* returned, the user selected and validate_entries kept, and only after the
\* user answered yes to the prompt that follows the validation; the program
\* itself changes the file system only through those calls, so with an empty
\* selection, nothing left by validation, or no yes, nothing is deleted.
C19_OnlyConfirmedDeleted ==
    /\ [](calls # <<>> \/ dpc # "idle" =>
            /\ confirmed = "yes"
            /\ batch = valid_selected
            /\ \A i \in DOMAIN calls :
                  \E e \in Range(valid_selected) :
                      /\ e.path = calls[i]
                      /\ e \in Range(selected)
                      /\ e \in Range(entries)
                      /\ e \in Range(first.entries))
    /\ [](selected = <<>> \/ valid_selected = <<>> \/ confirmed # "yes"
             => calls = <<>> /\ dpc = "idle" /\ deleted = <<>>)
    /\ [][valid_selected' # valid_selected
             => mpc = "validate" /\ valid_selected' = validate_entries(selected)]_vars
    /\ [][confirmed' # confirmed
             => /\ mpc = "confirm" /\ calls = <<>>
                /\ confirmed' = "yes" => valid_selected # <<>>]_vars
    /\ [][dcall' # dcall /\ dcall' # NoCall
             => mpc = "de_loop" /\ calls' = Append(calls, dcall'.path)]_vars
    /\ [][calls' = <<>> /\ envBudget' = envBudget => UNCHANGED fsVars]_vars

\* main has returned after a deletion: the user had selected fewer entries
\* than the analysis returned, validation had dropped one of them, and the
\* rest went to safe_delete after a yes.
C19_Witness ==
    /\ mpc = "exit" /\ confirmed = "yes"
    /\ Len(selected) < Len(first.entries)
    /\ Len(valid_selected) < Len(selected)
    /\ calls = PathsOf(valid_selected)
    /\ deleted # <<>>

\* C21: whenever analyze_directory has returned, with Ok or with an error,
\* every size task it spawned has completed.
C21_TasksDoneAtReturn ==
    apc = "done" => \A i \in DOMAIN tasks : tasks[i].pc = "done"

\* The entries analyze_directory returned are the entries its tasks built,
\* one for each task.
OneEntryPerTask ==
    /\ Len(entries) = Len(tasks)
    /\ \A i \in DOMAIN tasks : \E j \in DOMAIN entries : entries[j] = tasks[i].entry
    /\ Cardinality({entries[j].path : j \in DOMAIN entries}) = Len(entries)

\* C22: when analyze_directory returns Ok it returns one entry for each
\* immediate child of the root and nothing else; is_directory is what the
\* listing saw; a directory child is sized with limit max(max_depth - 1, 0),
\* a non-directory child by its own length whatever max_depth is, and a child
\* whose size computation returned an error has an entry of size 0.
C22_OneEntryPerChild ==
    apc = "done" /\ result = "ok" =>
        /\ OneEntryPerTask
        /\ \A j \in DOMAIN entries : ParentOf[entries[j].path] = Root
        /\ Undisturbed =>
              {entries[j].path : j \in DOMAIN entries}
                  = {c \in ChildrenOf(Root) : kind[c] # "none"}
        /\ \A i \in DOMAIN tasks :
              LET t == tasks[i]
              IN /\ t.entry.path = t.path
                 /\ t.entry.is_directory = t.is_directory
                 /\ t.is_directory => t.max_depth = (IF max_depth > 0 THEN max_depth - 1 ELSE 0)
                 /\ ~t.ret.ok => t.entry.size_bytes = 0
                 /\ Undisturbed => t.is_directory = IsDir(t.path)
                 /\ Undisturbed /\ ~t.is_directory => t.entry.size_bytes = len[t.path]

\* C23: a direct call of calculate_size on a regular file returns the file's
\* length whatever the depth limit; on a directory with limit m it returns
\* the sum (kept within the counter) of the lengths of the regular files
\* between 1 and m levels below it and of nothing else, which is 0 for m = 0.
C23_SumOfRegularFiles ==
    \A i \in DOMAIN tasks :
        LET t == tasks[i]
        IN ~t.spawned /\ t.pc = "done" /\ Undisturbed =>
              /\ kind[t.path] = "file" => t.ret = Ok(len[t.path])
              /\ kind[t.path] = "dir" =>
                    /\ t.ret = Ok(Clamp(SumLen(FilesWithin(t.path, t.max_depth))))
                    /\ t.max_depth = 0 => t.ret = Ok(0)

\* calculate_size(1) with limit 2 has returned the length of file 6 alone:
\* link 3 at level 1, directories 2 and 5 and file 7 at level 3 added nothing.
C23_Witness ==
    /\ tasks # <<>> /\ ~tasks[1].spawned /\ tasks[1].pc = "done" /\ Undisturbed
    /\ tasks[1].path = Root /\ tasks[1].max_depth = 2
    /\ kind[3] = "link" /\ IsFile(3) /\ kind[6] = "file" /\ kind[7] = "file"
    /\ tasks[1].ret = Ok(len[6]) /\ len[6] > 0 /\ len[7] > 0

\* The regular files between 1 and m levels below directory d that can be
\* reached: d can be listed, and so can every directory on the way down.
ReachableWithin(d, m) ==
    {n \in FilesWithin(d, m) : LExists(n) /\ "rx" \in mode[d]}

\* C24: a walk of calculate_size always returns Ok, whatever it could not
\* access on the way. On a tree that nothing changes the result is the sum of
\* the regular files within the depth bound that can be reached; when other
\* processes remove or lock paths during the call, every file that is still
\* reachable at the end has been counted.
C24_WalkSkipsErrors ==
    \A i \in DOMAIN tasks :
        LET t == tasks[i]
            reachable == Clamp(SumLen(ReachableWithin(t.path, t.max_depth)))
        IN ~t.spawned /\ t.pc = "done" /\ t.started =>
              /\ t.ret.ok
              /\ Undisturbed => t.ret.val = reachable
              /\ t.ret.val >= reachable

\* The walk from the root with limit 2 met the unreadable directory 2 and the
\* dangling link 3, and still returned Ok with the length of file 4; file 5
\* inside directory 2 was not counted.
C24_Witness ==
    /\ tasks # <<>> /\ ~tasks[1].spawned /\ tasks[1].pc = "done" /\ tasks[1].started
    /\ Undisturbed
    /\ tasks[1].path = Root /\ tasks[1].max_depth = 2
    /\ kind[2] = "dir" /\ "rx" \notin mode[2] /\ kind[5] = "file"
    /\ kind[3] = "link" /\ ~Exists(3)
    /\ kind[4] = "file" /\ len[4] > 0
    /\ tasks[1].ret = Ok(len[4])

\* C25: on every tree, symbolic links to an ancestor or to each other
\* included, and for every depth limit, every spawned size task finishes and
\* analyze_directory returns, given that each task and the call get to run.
C25_Terminates ==
    /\ <>(apc = "done")
    /\ \A i \in 1..MaxTasks : [](i \in DOMAIN tasks => <>(i \in DOMAIN tasks /\ tasks[i].pc = "done"))

\* analyze_directory has returned Ok with the largest depth limit for a root
\* that holds a link to the root itself and two links to each other.
C25_Witness ==
    /\ apc = "done" /\ result = "ok" /\ max_depth = MaxDepth
    /\ kind[2] = "link" /\ target[2] = Root
    /\ kind[3] = "link" /\ target[3] = 4 /\ kind[4] = "link" /\ target[4] = 3
    /\ Len(entries) = MaxTasks
    /\ \A i \in DOMAIN tasks : tasks[i].pc = "done"

\* C26: once validate_entries and get_unwritable_entries have both returned,
\* no selected path is in both results, each result is in selection order,
\* and the missing count selected.len() - valid_selected.len() -
\* unwritable.len() that main computes does not go below zero, whatever other
\* processes did between the two calls.
C26_MissingNeverNegative ==
    /\ mpc # "panicked"
    /\ mpc = "check" =>
          /\ Range(PathsOf(valid_selected)) \cap Range(PathsOf(unwritable)) = {}
          /\ Interleaved(PathsOf(SelectSeq(selected,
                                 LAMBDA e : e.path \in Range(PathsOf(valid_selected))
                                                \cup Range(PathsOf(unwritable)))),
                         PathsOf(valid_selected), PathsOf(unwritable))
          /\ Len(valid_selected) # Len(selected) =>
                Len(selected) - Len(valid_selected) - Len(unwritable) >= 0

\* The entries of es whose deletion delete_entries reported as succeeded.
Succeeded(es, del) == SelectSeq(es, LAMBDA entry : entry.path \in Range(del))

\* C27: the total main reports as freed is the sum of size_bytes of exactly
\* the entries delete_entries reported as succeeded; an entry whose deletion
\* failed adds nothing, whatever the paths are.
C27_FreedIsSumOfDeleted ==
    mpc = "exit" /\ confirmed = "yes" =>
        freed_bytes = SumSizes(Succeeded(valid_selected, deleted))

====
